---- MODULE Spec2Model ----
(***************************************************************************)
(* Production planning engine of endfield-production-planner (core crate): *)
(* the quantity calculator, the recipe selector and the recursive          *)
(* dependency resolver with its visiting set.                              *)
(*                                                                         *)
(* u32 values and f64 mantissas do not fit the integers of the model       *)
(* checker, so naturals are kept as little-endian sequences of limbs in    *)
(* base 2^15 and f64 values as (odd mantissa, binary exponent) with IEEE   *)
(* round-to-nearest-even applied after every operation.                    *)
(***************************************************************************)
EXTENDS Integers, Sequences, FiniteSets, TLC

\* ------------------------------------------------------------------------
\* Naturals of arbitrary size: little-endian limbs, no leading zero limb,
\* zero is the empty sequence.
\* ------------------------------------------------------------------------
LimbBits == 15

Base == 2 ^ LimbBits

Pow2(k) == 2 ^ k

RECURSIVE BNorm(_)
BNorm(a) ==
  IF a = <<>> THEN <<>>
  ELSE IF a[Len(a)] = 0 THEN BNorm(SubSeq(a, 1, Len(a) - 1))
  ELSE a

RECURSIVE BInt(_)
BInt(n) == IF n = 0 THEN <<>> ELSE <<n % Base>> \o BInt(n \div Base)

BZero == <<>>

BOne == <<1>>

Limb(a, i) == IF i <= Len(a) THEN a[i] ELSE 0

RECURSIVE BCmpFrom(_, _, _)
BCmpFrom(a, b, i) ==
  IF i = 0 THEN 0
  ELSE IF a[i] < b[i] THEN -1
  ELSE IF a[i] > b[i] THEN 1
  ELSE BCmpFrom(a, b, i - 1)

\* -1, 0 or 1 as a < b, a = b, a > b
BCmp(a, b) ==
  IF Len(a) < Len(b) THEN -1
  ELSE IF Len(a) > Len(b) THEN 1
  ELSE BCmpFrom(a, b, Len(a))

BLe(a, b) == BCmp(a, b) <= 0

BLt(a, b) == BCmp(a, b) < 0

RECURSIVE BAddFrom(_, _, _, _)
BAddFrom(a, b, i, carry) ==
  IF i > Len(a) /\ i > Len(b)
  THEN (IF carry = 0 THEN <<>> ELSE <<carry>>)
  ELSE LET s == Limb(a, i) + Limb(b, i) + carry
       IN <<s % Base>> \o BAddFrom(a, b, i + 1, s \div Base)

BAdd(a, b) == BAddFrom(a, b, 1, 0)

RECURSIVE BSubFrom(_, _, _, _)
BSubFrom(a, b, i, borrow) ==
  IF i > Len(a) THEN <<>>
  ELSE LET d == a[i] - Limb(b, i) - borrow
       IN IF d < 0 THEN <<d + Base>> \o BSubFrom(a, b, i + 1, 1)
          ELSE <<d>> \o BSubFrom(a, b, i + 1, 0)

\* a - b for a >= b
BSub(a, b) == BNorm(BSubFrom(a, b, 1, 0))

RECURSIVE BMulSmallFrom(_, _, _, _)
BMulSmallFrom(a, k, i, carry) ==
  IF i > Len(a) THEN (IF carry = 0 THEN <<>> ELSE <<carry>>)
  ELSE LET p == a[i] * k + carry
       IN <<p % Base>> \o BMulSmallFrom(a, k, i + 1, p \div Base)

\* a * k for 0 <= k < Base
BMulSmall(a, k) == IF k = 0 THEN <<>> ELSE BMulSmallFrom(a, k, 1, 0)

RECURSIVE BMul(_, _)
BMul(a, b) ==
  IF a = <<>> \/ b = <<>> THEN <<>>
  ELSE LET rest == BMul(a, Tail(b))
       IN BAdd(BMulSmall(a, b[1]), IF rest = <<>> THEN <<>> ELSE <<0>> \o rest)

RECURSIVE BDivSmallFrom(_, _, _, _)
BDivSmallFrom(a, d, i, r) ==
  IF i = 0 THEN [q |-> <<>>, r |-> r]
  ELSE LET cur == r * Base + a[i]
           lower == BDivSmallFrom(a, d, i - 1, cur % d)
       IN [q |-> lower.q \o <<cur \div d>>, r |-> lower.r]

\* quotient and remainder (an integer) of a by d, 0 < d < Base
BDivSmall(a, d) ==
  LET Normed(res) == [q |-> BNorm(res.q), r |-> res.r]
  IN Normed(BDivSmallFrom(a, d, Len(a), 0))

RECURSIVE BitLenInt(_)
BitLenInt(n) == IF n = 0 THEN 0 ELSE 1 + BitLenInt(n \div 2)

BBitLen(a) ==
  IF a = <<>> THEN 0 ELSE LimbBits * (Len(a) - 1) + BitLenInt(a[Len(a)])

Zeros(n) == [i \in 1..n |-> 0]

\* a * 2^k
BShl(a, k) ==
  IF a = <<>> THEN <<>>
  ELSE Zeros(k \div LimbBits) \o BMulSmall(a, Pow2(k % LimbBits))

\* floor(a / 2^k)
BShr(a, k) ==
  LET w == k \div LimbBits
  IN IF w >= Len(a) THEN <<>>
     ELSE BDivSmall(SubSeq(a, w + 1, Len(a)), Pow2(k % LimbBits)).q

\* a mod 2^k
BLow(a, k) ==
  LET w == k \div LimbBits
  IN IF w >= Len(a) THEN a
     ELSE BNorm(SubSeq(a, 1, w) \o <<a[w + 1] % Pow2(k % LimbBits)>>)

RECURSIVE QuotDigit(_, _, _, _)
\* the largest d below Base with b * d <= cur, found bit by bit
QuotDigit(cur, b, bit, d) ==
  IF bit < 0 THEN d
  ELSE LET t == d + Pow2(bit)
       IN IF BLe(BMulSmall(b, t), cur)
          THEN QuotDigit(cur, b, bit - 1, t)
          ELSE QuotDigit(cur, b, bit - 1, d)

RECURSIVE BDivLimbs(_, _, _, _)
\* schoolbook long division, one limb of a at a time from the top
BDivLimbs(a, b, i, r) ==
  IF i = 0 THEN [q |-> <<>>, r |-> r]
  ELSE LET Push(lower, d) == [q |-> lower.q \o <<d>>, r |-> lower.r]
           Digit(cur, d) ==
             Push(BDivLimbs(a, b, i - 1, BSub(cur, BMulSmall(b, d))), d)
           Step(cur) == Digit(cur, QuotDigit(cur, b, LimbBits - 1, 0))
       IN Step(BNorm(<<a[i]>> \o r))

\* quotient and remainder (both naturals) of a by b, b > 0
BDivMod(a, b) ==
  LET Small(res) == [q |-> res.q, r |-> BInt(res.r)]
      Normed(res) == [q |-> BNorm(res.q), r |-> res.r]
  IN IF Len(b) = 1 THEN Small(BDivSmall(a, b[1]))
     ELSE Normed(BDivLimbs(a, b, Len(a), <<>>))

BIsOdd(a) == a # <<>> /\ a[1] % 2 = 1

RECURSIVE TrailingZerosInt(_)
TrailingZerosInt(n) == IF n % 2 = 1 THEN 0 ELSE 1 + TrailingZerosInt(n \div 2)

RECURSIVE BTrailingZeros(_)
BTrailingZeros(a) ==
  IF a[1] = 0 THEN LimbBits + BTrailingZeros(Tail(a))
  ELSE TrailingZerosInt(a[1])

\* ceil(a / b) for b > 0
BCeilDiv(a, b) ==
  LET Up(res) == IF res.r = <<>> THEN res.q ELSE BAdd(res.q, BOne)
  IN Up(BDivMod(a, b))

BMin(a, b) == IF BLe(a, b) THEN a ELSE b

\* u32::MAX = 2^32 - 1 = 3 * 2^30 + 32767 * 2^15 + 32767
U32Max == <<32767, 32767, 3>>

\* ------------------------------------------------------------------------
\* f64, restricted to the values the engine can produce: +0, positive
\* finite numbers m * 2^e (m odd, below 2^53), +infinity and NaN.  With
\* u32 operands no result is subnormal or exceeds the exponent range.
\* ------------------------------------------------------------------------
MantBits == 53

F64Zero == [k |-> "fin", m |-> <<>>, e |-> 0]

F64Inf == [k |-> "inf", m |-> <<>>, e |-> 0]

F64NaN == [k |-> "nan", m |-> <<>>, e |-> 0]

\* the f64 with value m * 2^e, for m below 2^53 or a power of two
F64Canon(m, e) ==
  IF m = <<>> THEN F64Zero
  ELSE LET Shifted(tz) == [k |-> "fin", m |-> BShr(m, tz), e |-> e + tz]
       IN Shifted(BTrailingZeros(m))

\* (num / den) * 2^e0 rounded to the nearest f64, ties to even
F64Round(num, den, e0) ==
  IF num = <<>> THEN F64Zero
  ELSE IF den = BOne /\ BBitLen(num) <= MantBits THEN F64Canon(num, e0)
  ELSE LET \* s: the shift that leaves the quotient two bits beyond the mantissa
           Rounded(s, dm, drop, mant, c) ==
             LET up == c > 0 \/ (c = 0 /\ (dm.r # <<>> \/ BIsOdd(mant)))
             IN F64Canon(IF up THEN BAdd(mant, BOne) ELSE mant, e0 - s + drop)
           Dropped(s, dm, drop) ==
             Rounded(s, dm, drop, BShr(dm.q, drop),
                     BCmp(BLow(dm.q, drop), BShl(BOne, drop - 1)))
           Divided(s, dm) == Dropped(s, dm, BBitLen(dm.q) - MantBits)
           Shifted(s) == Divided(s, BDivMod(BShl(num, s), den))
           Wanted(want) == Shifted(IF want > 0 THEN want ELSE 0)
       IN Wanted(MantBits + 2 + BBitLen(den) - BBitLen(num))

\* `n as f64` for a u32 n: exact
F64FromU32(n) == F64Canon(n, 0)

F64One == F64FromU32(BOne)

F64IsZero(a) == a.k = "fin" /\ a.m = <<>>

F64Mul(a, b) ==
  IF a.k = "nan" \/ b.k = "nan" THEN F64NaN
  ELSE IF a.k = "inf" \/ b.k = "inf"
       THEN (IF F64IsZero(a) \/ F64IsZero(b) THEN F64NaN ELSE F64Inf)
  ELSE F64Round(BMul(a.m, b.m), BOne, a.e + b.e)

F64Div(a, b) ==
  IF a.k = "nan" \/ b.k = "nan" THEN F64NaN
  ELSE IF a.k = "inf" THEN (IF b.k = "inf" THEN F64NaN ELSE F64Inf)
  ELSE IF b.k = "inf" THEN F64Zero
  ELSE IF F64IsZero(b) THEN (IF F64IsZero(a) THEN F64NaN ELSE F64Inf)
  ELSE F64Round(a.m, b.m, a.e - b.e)

\* f64::ceil
F64Ceil(a) ==
  IF a.k # "fin" \/ a.e >= 0 THEN a
  ELSE F64Canon(BAdd(BShr(a.m, 0 - a.e), BOne), 0)

\* `x as u32`: truncates, saturates at the bounds, NaN gives 0
F64AsU32(a) ==
  IF a.k = "nan" THEN <<>>
  ELSE IF a.k = "inf" THEN U32Max
  ELSE IF a.e < 0 THEN BMin(BShr(a.m, 0 - a.e), U32Max)
  ELSE IF BBitLen(a.m) + a.e > 32 THEN U32Max
  ELSE BShl(a.m, a.e)

\* -1, 0 or 1 as a < b, a = b, a > b, for a and b not NaN
F64Cmp(a, b) ==
  IF a.k = "inf" THEN (IF b.k = "inf" THEN 0 ELSE 1)
  ELSE IF b.k = "inf" THEN -1
  ELSE IF a.m = <<>> \/ b.m = <<>> THEN BCmp(a.m, b.m)
  ELSE LET Ordered(la, lb) ==
             IF la < lb THEN -1
             ELSE IF la > lb THEN 1
             ELSE IF a.e >= b.e THEN BCmp(BShl(a.m, a.e - b.e), b.m)
             ELSE BCmp(a.m, BShl(b.m, b.e - a.e))
       IN Ordered(BBitLen(a.m) + a.e, BBitLen(b.m) + b.e)

\* ------------------------------------------------------------------------
\* Option<T>: None is the empty sequence, Some(x) the sequence <<x>>.
\* HashMap<K, V>: a function on the set of its keys.
\* String: a sequence of one-character strings.
\* ------------------------------------------------------------------------
None == <<>>

Some(x) == <<x>>

MapGet(map, key) == IF key \in DOMAIN map THEN Some(map[key]) ELSE None

UnwrapOr(opt, default) == IF opt = None THEN default ELSE opt[1]

EmptyMap == [x \in {} |-> <<>>]

\* characters in byte order; String comparison is byte-wise lexicographic
CharOrder ==
  <<",", "0", "1", "2", "3", "4", "5", "6", "7", "8", "9", ":", "@", "[", "]",
    "_", "a", "b", "c", "d", "e", "f", "g", "h", "i", "j", "k", "l", "m", "n",
    "o", "p", "q", "r", "s", "t", "u", "v", "w", "x", "y", "z">>

CharCode(c) == CHOOSE i \in 1..Len(CharOrder) : CharOrder[i] = c

IntCmp(x, y) == IF x < y THEN -1 ELSE IF x > y THEN 1 ELSE 0

RECURSIVE StrCmp(_, _)
\* Ord for String: -1, 0 or 1
StrCmp(s, t) ==
  IF s = <<>> THEN (IF t = <<>> THEN 0 ELSE -1)
  ELSE IF t = <<>> THEN 1
  ELSE IF s[1] # t[1] THEN IntCmp(CharCode(s[1]), CharCode(t[1]))
  ELSE StrCmp(Tail(s), Tail(t))

\* Ord for bool: false < true
BoolCmp(x, y) == IntCmp(IF x THEN 1 ELSE 0, IF y THEN 1 ELSE 0)

\* Ordering::then_with
ThenWith(first, second) == IF first # 0 THEN first ELSE second

\* ------------------------------------------------------------------------
\* Quantity calculator
\* ------------------------------------------------------------------------
PRODUCTION_TIME_WINDOW == F64FromU32(BInt(60))

\* a machine missing from the table charged one unit of power
calculate_MissingMachineDraws(recipe, machine, target_amount, item_id) ==
  LET power == IF machine = None THEN BOne ELSE machine[1].power
      output_per_craft == F64FromU32(UnwrapOr(MapGet(recipe.outputs, item_id), BOne))
      recipe_time == F64FromU32(recipe.time)
      \* lines 40-53: load, power_usage and the returned struct
      Counted(required_crafts, required_machines, machine_count) ==
        [required_crafts |-> required_crafts,
         machine_count |-> machine_count,
         load |-> IF machine_count # BZero
                  THEN F64Div(required_machines, F64FromU32(machine_count))
                  ELSE F64One,
         power_usage |-> BMin(BMul(power, machine_count), U32Max)]
      \* line 38: machine_count
      Timed(required_crafts, required_machines) ==
        Counted(required_crafts, required_machines,
                F64AsU32(F64Ceil(required_machines)))
      \* line 37: required_machines
      Crafted(required_crafts) ==
        Timed(required_crafts,
              F64Div(F64Mul(recipe_time, required_crafts), PRODUCTION_TIME_WINDOW))
  \* line 36: required_crafts
  IN Crafted(F64Div(F64FromU32(target_amount), output_per_craft))

\* the product of line 46 taken in 32 bits, without the clamp
calculate_PowerWraps(recipe, machine, target_amount, item_id) ==
  LET power == IF machine = None THEN BZero ELSE machine[1].power
      output_per_craft == F64FromU32(UnwrapOr(MapGet(recipe.outputs, item_id), BOne))
      recipe_time == F64FromU32(recipe.time)
      Counted(required_crafts, required_machines, machine_count) ==
        [required_crafts |-> required_crafts,
         machine_count |-> machine_count,
         load |-> IF machine_count # BZero
                  THEN F64Div(required_machines, F64FromU32(machine_count))
                  ELSE F64One,
         power_usage |-> BLow(BMul(power, machine_count), 32)]
      Timed(required_crafts, required_machines) ==
        Counted(required_crafts, required_machines,
                F64AsU32(F64Ceil(required_machines)))
      Crafted(required_crafts) ==
        Timed(required_crafts,
              F64Div(F64Mul(recipe_time, required_crafts), PRODUCTION_TIME_WINDOW))
  IN Crafted(F64Div(F64FromU32(target_amount), output_per_craft))

calculate(recipe, machine, target_amount, item_id) ==
  LET power == IF machine = None THEN BZero ELSE machine[1].power
      output_per_craft == F64FromU32(UnwrapOr(MapGet(recipe.outputs, item_id), BOne))
      recipe_time == F64FromU32(recipe.time)
      \* lines 40-53: load, power_usage and the returned struct
      Counted(required_crafts, required_machines, machine_count) ==
        [required_crafts |-> required_crafts,
         machine_count |-> machine_count,
         load |-> IF machine_count # BZero
                  THEN F64Div(required_machines, F64FromU32(machine_count))
                  ELSE F64One,
         power_usage |-> BMin(BMul(power, machine_count), U32Max)]
      \* line 38: machine_count
      Timed(required_crafts, required_machines) ==
        Counted(required_crafts, required_machines,
                F64AsU32(F64Ceil(required_machines)))
      \* line 37: required_machines
      Crafted(required_crafts) ==
        Timed(required_crafts,
              F64Div(F64Mul(recipe_time, required_crafts), PRODUCTION_TIME_WINDOW))
  \* line 36: required_crafts
  IN Crafted(F64Div(F64FromU32(target_amount), output_per_craft))

\* ------------------------------------------------------------------------
\* Recipe selector
\* ------------------------------------------------------------------------
has_cyclic_inputs(recipe, visiting) ==
  \E input_id \in DOMAIN recipe.inputs : input_id \in visiting

\* machines.get(&recipe.by).map(|m| m.tier).unwrap_or(0)
machine_tier(machines, recipe) ==
  LET machine == MapGet(machines, recipe.by)
  IN IF machine = None THEN BZero ELSE machine[1].tier

\* machines.get(&recipe.by).map(|m| m.power).unwrap_or(0)
machine_power(machines, recipe) ==
  LET machine == MapGet(machines, recipe.by)
  IN IF machine = None THEN BZero ELSE machine[1].power

\* is_source is compared before the cyclic status
CompareRecipes_SourceFirst(recipe_a, recipe_b, machines, visiting) ==
  ThenWith(BoolCmp(recipe_a.is_source, recipe_b.is_source),
    ThenWith(BoolCmp(has_cyclic_inputs(recipe_b, visiting),
                     has_cyclic_inputs(recipe_a, visiting)),
      ThenWith(BCmp(machine_tier(machines, recipe_a), machine_tier(machines, recipe_b)),
        ThenWith(BCmp(machine_power(machines, recipe_b), machine_power(machines, recipe_a)),
          StrCmp(recipe_a.id, recipe_b.id)))))

\* the machine tier is compared before is_source
CompareRecipes_TierFirst(recipe_a, recipe_b, machines, visiting) ==
  ThenWith(BoolCmp(has_cyclic_inputs(recipe_b, visiting),
                   has_cyclic_inputs(recipe_a, visiting)),
    ThenWith(BCmp(machine_tier(machines, recipe_a), machine_tier(machines, recipe_b)),
      ThenWith(BoolCmp(recipe_a.is_source, recipe_b.is_source),
        ThenWith(BCmp(machine_power(machines, recipe_b), machine_power(machines, recipe_a)),
          StrCmp(recipe_a.id, recipe_b.id)))))

\* the power comparison the same way round as the tier comparison
CompareRecipes_HigherPower(recipe_a, recipe_b, machines, visiting) ==
  ThenWith(BoolCmp(has_cyclic_inputs(recipe_b, visiting),
                   has_cyclic_inputs(recipe_a, visiting)),
    ThenWith(BoolCmp(recipe_a.is_source, recipe_b.is_source),
      ThenWith(BCmp(machine_tier(machines, recipe_a), machine_tier(machines, recipe_b)),
        ThenWith(BCmp(machine_power(machines, recipe_a), machine_power(machines, recipe_b)),
          StrCmp(recipe_a.id, recipe_b.id)))))

\* the comparison closure handed to max_by, lines 32-51
CompareRecipes(recipe_a, recipe_b, machines, visiting) ==
  LET tier_a == machine_tier(machines, recipe_a)
      tier_b == machine_tier(machines, recipe_b)
      power_a == machine_power(machines, recipe_a)
      power_b == machine_power(machines, recipe_b)
      cyclic_a == has_cyclic_inputs(recipe_a, visiting)
      cyclic_b == has_cyclic_inputs(recipe_b, visiting)
  IN ThenWith(BoolCmp(cyclic_b, cyclic_a),
       ThenWith(BoolCmp(recipe_a.is_source, recipe_b.is_source),
         ThenWith(BCmp(tier_a, tier_b),
           ThenWith(BCmp(power_b, power_a),
             StrCmp(recipe_a.id, recipe_b.id)))))

RECURSIVE MaxByFrom(_, _, _, _, _)
\* Iterator::max_by: keeps the held element only when it compares Greater
MaxByFrom(found, i, best, machines, visiting) ==
  IF i > Len(found) THEN best
  ELSE MaxByFrom(found, i + 1,
                 IF CompareRecipes(best, found[i], machines, visiting) = 1
                 THEN best ELSE found[i],
                 machines, visiting)

RECURSIVE FilterFound(_, _)
\* candidates.iter().filter_map(|id| recipes.get(id))
FilterFound(candidates, recipes) ==
  IF candidates = <<>> THEN <<>>
  ELSE MapGet(recipes, Head(candidates)) \o FilterFound(Tail(candidates), recipes)

RECURSIVE DropCyclic(_, _)
DropCyclic(found, visiting) ==
  IF found = <<>> THEN <<>>
  ELSE (IF has_cyclic_inputs(Head(found), visiting) THEN <<>> ELSE <<Head(found)>>)
       \o DropCyclic(Tail(found), visiting)

\* candidates with an input in visiting are filtered out before max_by
select_best_recipe_DropsCyclic(item_id, recipes, recipes_by_output, machines, visiting) ==
  IF item_id \notin DOMAIN recipes_by_output THEN None
  ELSE LET found == DropCyclic(FilterFound(recipes_by_output[item_id], recipes),
                               visiting)
       IN IF found = <<>> THEN None
          ELSE Some(MaxByFrom(found, 2, found[1], machines, visiting))

select_best_recipe(item_id, recipes, recipes_by_output, machines, visiting) ==
  IF item_id \notin DOMAIN recipes_by_output THEN None
  ELSE LET found == FilterFound(recipes_by_output[item_id], recipes)
       IN IF found = <<>> THEN None
          ELSE Some(MaxByFrom(found, 2, found[1], machines, visiting))

\* ------------------------------------------------------------------------
\* Recipe records and the catalog loader
\* ------------------------------------------------------------------------
SELF_REFERENCE_KEYWORD == <<"t", "h", "i", "s">>

MapInsert(map, key, value) ==
  [x \in DOMAIN map \cup {key} |-> IF x = key THEN value ELSE map[x]]

MapRemove(map, key) == [x \in DOMAIN map \ {key} |-> map[x]]

\* Recipe::normalize
normalize(r) ==
  LET o1 == IF r.out # None THEN MapInsert(r.outputs, r.id, r.out[1])
            ELSE r.outputs
      o2 == IF SELF_REFERENCE_KEYWORD \in DOMAIN o1
            THEN MapInsert(MapRemove(o1, SELF_REFERENCE_KEYWORD), r.id,
                           o1[SELF_REFERENCE_KEYWORD])
            ELSE o1
  IN [r EXCEPT !.outputs = o2]

Digits == <<"0", "1", "2", "3", "4", "5", "6", "7", "8", "9">>

RECURSIVE U32Digits(_)
U32Digits(n) ==
  IF n = <<>> THEN <<>>
  ELSE LET dm == BDivSmall(n, 10) IN U32Digits(dm.q) \o <<Digits[dm.r + 1]>>

\* Display for u32
U32ToString(n) == IF n = <<>> THEN <<"0">> ELSE U32Digits(n)

RECURSIVE SortedKeys(_)
\* the keys of a map in ascending String order
SortedKeys(keys) ==
  IF keys = {} THEN <<>>
  ELSE LET least == CHOOSE k \in keys : \A o \in keys : StrCmp(k, o) <= 0
       IN <<least>> \o SortedKeys(keys \ {least})

RECURSIVE JoinInputs(_, _)
\* "k:v" for every key of the sequence, joined with ","
JoinInputs(keys, inputs) ==
  IF keys = <<>> THEN <<>>
  ELSE Head(keys) \o <<":">> \o U32ToString(inputs[Head(keys)])
       \o (IF Len(keys) > 1 THEN <<",">> ELSE <<>>)
       \o JoinInputs(Tail(keys), inputs)

\* Recipe::compute_unique_id
compute_unique_id(r) ==
  r.id \o <<"@">> \o r.by \o <<"[">>
  \o JoinInputs(SortedKeys(DOMAIN r.inputs), r.inputs) \o <<"]">>

RECURSIVE LoadRecipes(_, _, _)
\* the loop of GameData::new over the parsed recipe records
LoadRecipes(records, recipes, recipes_by_output) ==
  IF records = <<>>
  THEN [recipes |-> recipes, recipes_by_output |-> recipes_by_output]
  ELSE LET r == normalize(Head(records))
           unique_id == compute_unique_id(r)
           output_item == r.id
           listed == UnwrapOr(MapGet(recipes_by_output, output_item), <<>>)
       IN LoadRecipes(Tail(records),
                      MapInsert(recipes, unique_id, r),
                      MapInsert(recipes_by_output, output_item,
                                Append(listed, unique_id)))

RECURSIVE LoadMachines(_, _)
\* machines.into_iter().map(|m| (m.id.clone(), m)).collect()
LoadMachines(list, machines) ==
  IF list = <<>> THEN machines
  ELSE LoadMachines(Tail(list), MapInsert(machines, Head(list).id, Head(list)))

\* GameData::new on parsed records
GameDataNew(recipe_records, machine_records) ==
  LET loaded == LoadRecipes(recipe_records, EmptyMap, EmptyMap)
  IN [recipes |-> loaded.recipes,
      recipes_by_output |-> loaded.recipes_by_output,
      machines |-> LoadMachines(machine_records, EmptyMap)]

\* ------------------------------------------------------------------------
\* Production nodes
\* ------------------------------------------------------------------------
Unresolved(item_id, amount) ==
  [tag |-> "Unresolved", item_id |-> item_id, amount |-> amount]

Resolved(item_id, machine_id, amount, machine_count, load, power_usage, inputs, is_source) ==
  [tag |-> "Resolved", item_id |-> item_id, machine_id |-> machine_id,
   amount |-> amount, machine_count |-> machine_count, load |-> load,
   power_usage |-> power_usage, inputs |-> inputs, is_source |-> is_source]

MISSING_MACHINE ==
  <<"m", "i", "s", "s", "i", "n", "g", "_", "m", "a", "c", "h", "i", "n", "e">>

\* ------------------------------------------------------------------------
\* ProductionNode aggregations (production.rs).  u32 additions overflow:
\* with overflow checks compiled in (debug profile) the call panics,
\* without them (release profile) the sum wraps modulo 2^32.  A u32 result
\* is a record: panic, or the value.
\* ------------------------------------------------------------------------
RECURSIVE BSum(_)
\* the sum of a sequence of naturals, unbounded
BSum(seq) == IF seq = <<>> THEN BZero ELSE BAdd(Head(seq), BSum(Tail(seq)))

Ok(v) == [panic |-> FALSE, value |-> v]

Panic == [panic |-> TRUE, value |-> <<>>]

\* x + y on u32 results
U32Add(x, y, overflow_checks) ==
  LET Sum(t) ==
        IF BLe(t, U32Max) THEN Ok(t)
        ELSE IF overflow_checks THEN Panic
        ELSE Ok(BLow(t, 32))
  IN IF x.panic \/ y.panic THEN Panic ELSE Sum(BAdd(x.value, y.value))

\* every Resolved node taken for a leaf
is_leaf_AnyResolved(node) == node.tag = "Resolved"

is_leaf(node) == node.tag = "Resolved" /\ node.inputs = <<>>

\* f64::round: to the nearest integer, halves away from zero
F64RoundHalfAway(a) ==
  IF a.k # "fin" \/ a.e >= 0 THEN a
  ELSE LET Whole(floor, half) ==
             F64Canon(IF half THEN BAdd(floor, BOne) ELSE floor, 0)
       IN Whole(BShr(a.m, 0 - a.e),
                BLe(BShl(BOne, (0 - a.e) - 1), BLow(a.m, 0 - a.e)))

\* f64::clamp(min, max) for min <= max: NaN stays NaN
F64Clamp(a, min, max) ==
  IF a.k = "nan" THEN a
  ELSE IF F64Cmp(a, min) < 0 THEN min
  ELSE IF F64Cmp(a, max) > 0 THEN max
  ELSE a

RECURSIVE total_utilization(_)
RECURSIVE ProductFrom(_, _, _)
RECURSIVE ProductFrom_Minimum(_, _, _)
\* the smallest child utilization instead of the product
ProductFrom_Minimum(inputs, i, acc) ==
  IF i > Len(inputs) THEN acc
  ELSE ProductFrom_Minimum(inputs, i + 1,
         IF F64Cmp(total_utilization(inputs[i]), acc) < 0
         THEN total_utilization(inputs[i]) ELSE acc)

\* Iterator::product::<f64> over the children from index i on, acc so far
ProductFrom(inputs, i, acc) ==
  IF i > Len(inputs) THEN acc
  ELSE ProductFrom(inputs, i + 1, F64Mul(acc, total_utilization(inputs[i])))

\* an Unresolved node passed over as a factor of 1.0
total_utilization_SkipsUnresolved(node) ==
  IF node.tag = "Resolved"
  THEN IF is_leaf(node) THEN node.load
       ELSE F64Mul(node.load, ProductFrom(node.inputs, 1, F64One))
  ELSE F64One

total_utilization(node) ==
  IF node.tag = "Resolved"
  THEN IF is_leaf(node) THEN node.load
       ELSE F64Mul(node.load, ProductFrom(node.inputs, 1, F64One))
  ELSE F64Zero

utilization(node) ==
  F64AsU32(F64Clamp(F64RoundHalfAway(F64Mul(total_utilization(node),
                                            F64FromU32(BInt(100)))),
                    F64Zero, F64FromU32(BInt(100))))

RECURSIVE total_power(_, _)
RECURSIVE SumPowerFrom(_, _, _, _)
\* Iterator::sum::<u32> of child.total_power() from index i on, acc so far
SumPowerFrom(inputs, i, acc, overflow_checks) ==
  IF i > Len(inputs) THEN acc
  ELSE SumPowerFrom(inputs, i + 1,
                    U32Add(acc, total_power(inputs[i], overflow_checks),
                           overflow_checks),
                    overflow_checks)

\* only the node's own power_usage and that of its direct children
total_power_DirectChildren(node, overflow_checks) ==
  IF node.tag = "Resolved"
  THEN U32Add(Ok(node.power_usage),
              Ok(BSum([i \in 1..Len(node.inputs) |->
                         IF node.inputs[i].tag = "Resolved"
                         THEN node.inputs[i].power_usage ELSE BZero])),
              overflow_checks)
  ELSE Ok(BZero)

total_power(node, overflow_checks) ==
  IF node.tag = "Resolved"
  THEN U32Add(Ok(node.power_usage),
              SumPowerFrom(node.inputs, 1, Ok(BZero), overflow_checks),
              overflow_checks)
  ELSE Ok(BZero)

total_power_exclude_source(node, overflow_checks) ==
  IF node.tag = "Resolved" /\ ~node.is_source
  THEN U32Add(Ok(node.power_usage),
              SumPowerFrom(node.inputs, 1, Ok(BZero), overflow_checks),
              overflow_checks)
  ELSE Ok(BZero)

\* the closures handed to collect_totals, named by the method that builds
\* them; the result is an Option of (key, value)
Extract(method, node) ==
  CASE method = "total_source_materials" ->
         IF node.tag = "Resolved"
         THEN (IF is_leaf(node) THEN Some(<<node.item_id, node.amount>>) ELSE None)
         ELSE Some(<<node.item_id, node.amount>>)
    [] method = "total_machines" ->
         IF node.tag = "Resolved" /\ node.machine_id # <<>>
         THEN Some(<<node.machine_id, node.machine_count>>)
         ELSE None
    [] method = "total_machines_exclude_source" ->
         IF node.tag = "Resolved" /\ node.machine_id # <<>> /\ ~node.is_source
         THEN Some(<<node.machine_id, node.machine_count>>)
         ELSE None

\* the entry is set to the node's value instead of being added to
EntryAdd_Overwrites(totals, entry, overflow_checks) ==
  IF totals.panic THEN Panic ELSE Ok(MapInsert(totals.value, entry[1], entry[2]))

\* *totals.entry(key).or_insert(0) += value
EntryAdd(totals, entry, overflow_checks) ==
  LET Put(sum) ==
        IF sum.panic THEN Panic ELSE Ok(MapInsert(totals.value, entry[1], sum.value))
  IN IF totals.panic THEN Panic
     ELSE Put(U32Add(Ok(UnwrapOr(MapGet(totals.value, entry[1]), BZero)),
                     Ok(entry[2]), overflow_checks))

RECURSIVE collect_totals_recursive(_, _, _, _)
RECURSIVE CollectFrom(_, _, _, _, _)
\* the for loop over the children from index i on
CollectFrom(inputs, i, totals, method, overflow_checks) ==
  IF i > Len(inputs) THEN totals
  ELSE CollectFrom(inputs, i + 1,
                   collect_totals_recursive(inputs[i], totals, method,
                                            overflow_checks),
                   method, overflow_checks)

collect_totals_recursive(node, totals, method, overflow_checks) ==
  LET Children(after) ==
        IF node.tag = "Resolved"
        THEN CollectFrom(node.inputs, 1, after, method, overflow_checks)
        ELSE after
  IN Children(IF Extract(method, node) = None THEN totals
              ELSE EntryAdd(totals, Extract(method, node)[1], overflow_checks))

collect_totals(node, method, overflow_checks) ==
  collect_totals_recursive(node, Ok(EmptyMap), method, overflow_checks)

total_source_materials(node, overflow_checks) ==
  collect_totals(node, "total_source_materials", overflow_checks)

total_machines(node, overflow_checks) ==
  collect_totals(node, "total_machines", overflow_checks)

total_machines_exclude_source(node, overflow_checks) ==
  collect_totals(node, "total_machines_exclude_source", overflow_checks)

\* ------------------------------------------------------------------------
\* State
\* ------------------------------------------------------------------------
VARIABLES
  recipes,            \* GameData.recipes: unique id -> Recipe
  recipes_by_output,  \* GameData.recipes_by_output: item id -> Vec of unique ids
  machines,           \* GameData.machines: machine id -> Machine
  visiting,           \* the HashSet handed down through resolve
  stack,              \* active calls of resolve, the innermost last
  result,             \* Option: the node returned by the top-level resolve
  sel,                \* Option: one call of select_best_recipe, with its result
  calc,               \* Option: one call of calculate, with its result
  totals,             \* Option: the aggregations of the returned tree
  keys,               \* Option: two recipes and, once computed, their unique ids
  norm                \* Option: a parsed record and, once normalized, the recipe

vars == <<recipes, recipes_by_output, machines, visiting, stack, result, sel, calc, totals, keys, norm>>

catalog == <<recipes, recipes_by_output, machines>>

\* ------------------------------------------------------------------------
\* Dependency resolver: resolve and build_resolved_node as a call stack.
\* A frame is one call of resolve; pc "enter" is the call not yet started,
\* "inputs" the filter_map loop of build_resolved_node, "unresolved" the
\* None arm before the backtrack.  entry_visiting records the visiting set
\* the call was entered with; the code does not keep it.
\* ------------------------------------------------------------------------
Frame(item_id, amount, entry_visiting) ==
  [item_id |-> item_id, amount |-> amount, pc |-> "enter",
   recipe |-> None, calc |-> None, machine_id |-> <<>>,
   todo |-> {}, children |-> <<>>, entry_visiting |-> entry_visiting]

Top == stack[Len(stack)]

SetTop(f) == [stack EXCEPT ![Len(stack)] = f]

\* dependency_resolver.rs line 86
sub_amount(input_count, required_crafts) ==
  F64AsU32(F64Ceil(F64Mul(F64FromU32(input_count), required_crafts)))

\* the selector consulted with the visiting set as it was before the insert
ResolveEnter_SelectsBeforeInsert ==
  /\ stack # <<>>
  /\ Top.pc = "enter"
  /\ LET inserted == visiting \cup {Top.item_id}
         choice == select_best_recipe(Top.item_id, recipes, recipes_by_output,
                                      machines, visiting)
     IN /\ visiting' = inserted
        /\ IF choice = None
           THEN stack' = SetTop([Top EXCEPT !.pc = "unresolved"])
           ELSE LET recipe == choice[1]
                    machine == MapGet(machines, recipe.by)
                    machine_id == IF machine = None THEN MISSING_MACHINE
                                  ELSE machine[1].id
                IN stack' = SetTop([Top EXCEPT
                                      !.pc = "inputs",
                                      !.recipe = Some(recipe),
                                      !.machine_id = machine_id,
                                      !.calc = Some(calculate(recipe, machine,
                                                 Top.amount, Top.item_id)),
                                      !.todo = DOMAIN recipe.inputs])
  /\ UNCHANGED <<catalog, result, sel, calc, totals, keys, norm>>

\* resolve lines 29-38 and, for Some(recipe), build_resolved_node lines 70-75
ResolveEnter ==
  /\ stack # <<>>
  /\ Top.pc = "enter"
  /\ LET inserted == visiting \cup {Top.item_id}
         choice == select_best_recipe(Top.item_id, recipes, recipes_by_output,
                                      machines, inserted)
     IN /\ visiting' = inserted
        /\ IF choice = None
           THEN stack' = SetTop([Top EXCEPT !.pc = "unresolved"])
           ELSE LET recipe == choice[1]
                    machine == MapGet(machines, recipe.by)
                    machine_id == IF machine = None THEN MISSING_MACHINE
                                  ELSE machine[1].id
                IN stack' = SetTop([Top EXCEPT
                                      !.pc = "inputs",
                                      !.recipe = Some(recipe),
                                      !.machine_id = machine_id,
                                      !.calc = Some(calculate(recipe, machine,
                                                 Top.amount, Top.item_id)),
                                      !.todo = DOMAIN recipe.inputs])
  /\ UNCHANGED <<catalog, result, sel, calc, totals, keys, norm>>

\* the cycle check of line 82 left out
ShouldSkip_Never(input_id) == FALSE

\* build_resolved_node line 82: visiting.contains(input_id)
ShouldSkip(input_id) == input_id \in visiting

\* a skipped input leaves a placeholder node in the child list
SkipInput_EmitsNode ==
  /\ stack # <<>>
  /\ Top.pc = "inputs"
  /\ \E input_id \in Top.todo :
       /\ ShouldSkip(input_id)
       /\ stack' = SetTop([Top EXCEPT !.todo = @ \ {input_id},
                                      !.children = Append(@, Unresolved(input_id, BZero))])
  /\ UNCHANGED <<catalog, visiting, result, sel, calc, totals, keys, norm>>

\* build_resolved_node lines 80-84: the next input of the iteration is
\* in visiting.  HashMap iteration order is unspecified: any input not yet
\* iterated can be the next one.
SkipInput ==
  /\ stack # <<>>
  /\ Top.pc = "inputs"
  /\ \E input_id \in Top.todo :
       /\ ShouldSkip(input_id)
       /\ stack' = SetTop([Top EXCEPT !.todo = @ \ {input_id}])
  /\ UNCHANGED <<catalog, visiting, result, sel, calc, totals, keys, norm>>

\* The call stack is finite: a call that would need more than MaxDepth
\* frames of resolve aborts the process and returns nothing.
MaxDepth == 6

\* build_resolved_node lines 86-95: the recursive call for the next input
CallInput ==
  /\ stack # <<>>
  /\ Top.pc = "inputs"
  /\ Len(stack) < MaxDepth
  /\ \E input_id \in Top.todo :
       /\ ~ShouldSkip(input_id)
       /\ stack' = Append(SetTop([Top EXCEPT !.todo = @ \ {input_id}]),
                          Frame(input_id,
                                sub_amount(Top.recipe[1].inputs[input_id],
                                           Top.calc[1].required_crafts),
                                visiting))
  /\ UNCHANGED <<catalog, visiting, result, sel, calc, totals, keys, norm>>

\* a node requested at amount 0 returned without its children
NodeOf_IdleNodeIsLeaf(f) ==
  IF f.pc = "unresolved" THEN Unresolved(f.item_id, f.amount)
  ELSE Resolved(f.item_id, f.machine_id, f.amount, f.calc[1].machine_count,
                f.calc[1].load, f.calc[1].power_usage,
                IF f.amount = BZero THEN <<>> ELSE f.children,
                f.recipe[1].is_source)

\* the node a finished frame returns
NodeOf(f) ==
  IF f.pc = "unresolved" THEN Unresolved(f.item_id, f.amount)
  ELSE Resolved(f.item_id, f.machine_id, f.amount, f.calc[1].machine_count,
                f.calc[1].load, f.calc[1].power_usage, f.children,
                f.recipe[1].is_source)

Finished(f) == f.pc = "unresolved" \/ (f.pc = "inputs" /\ f.todo = {})

\* the backtrack of line 55 left out
ResolveReturn_NoBacktrack ==
  /\ stack # <<>>
  /\ Finished(Top)
  /\ visiting' = visiting
  /\ IF Len(stack) = 1
     THEN /\ result' = Some(NodeOf(Top))
          /\ stack' = <<>>
     ELSE /\ result' = result
          /\ stack' = [SubSeq(stack, 1, Len(stack) - 1) EXCEPT
                         ![Len(stack) - 1].children = Append(@, NodeOf(Top))]
  /\ UNCHANGED <<catalog, sel, calc, totals, keys, norm>>

\* build_resolved_node lines 99-108 or resolve lines 48-51, then the
\* backtrack of lines 54-57; the node goes to the caller's children
ResolveReturn ==
  /\ stack # <<>>
  /\ Finished(Top)
  /\ visiting' = visiting \ {Top.item_id}
  /\ IF Len(stack) = 1
     THEN /\ result' = Some(NodeOf(Top))
          /\ stack' = <<>>
     ELSE /\ result' = result
          /\ stack' = [SubSeq(stack, 1, Len(stack) - 1) EXCEPT
                         ![Len(stack) - 1].children = Append(@, NodeOf(Top))]
  /\ UNCHANGED <<catalog, sel, calc, totals, keys, norm>>

\* ------------------------------------------------------------------------
\* Catalogs, requests and the top-level call
\* ------------------------------------------------------------------------
ItemA == <<"a">>

ItemB == <<"b">>

ItemC == <<"c">>

Items == {ItemA, ItemB, ItemC}

MachM == <<"m">>

MachN == <<"n">>

\* a producer no machine record exists for
MachH == <<"h">>

Machine(id, tier, power) == [id |-> id, tier |-> BInt(tier), power |-> BInt(power)]

MachineRecords == <<Machine(MachM, 1, 5), Machine(MachN, 2, 10)>>

\* a parsed [[recipes]] record before normalize
Rec(id, by, time, out, inputs, outputs, is_source) ==
  [id |-> id, by |-> by, time |-> BInt(time), out |-> out, inputs |-> inputs,
   outputs |-> outputs, is_source |-> is_source]

Qty(item, n) == item :> BInt(n)

RecipePool ==
  { Rec(ItemA, MachM, 2, Some(BInt(1)), Qty(ItemB, 1), EmptyMap, FALSE),
    Rec(ItemA, MachM, 2, Some(BInt(1)), Qty(ItemA, 1), EmptyMap, FALSE),
    Rec(ItemA, MachN, 60, Some(BInt(2)), Qty(ItemB, 2) @@ Qty(ItemC, 1), EmptyMap, FALSE),
    Rec(ItemA, MachM, 2, Some(BInt(1)), Qty(ItemC, 1), EmptyMap, FALSE),
    Rec(ItemB, MachM, 2, Some(BInt(1)), Qty(ItemA, 1), EmptyMap, FALSE),
    Rec(ItemB, MachH, 27, None, Qty(ItemC, 27), Qty(ItemB, 3), FALSE),
    Rec(ItemB, MachN, 0, Some(BInt(1)), EmptyMap, EmptyMap, TRUE),
    Rec(ItemB, MachM, 2, Some(BInt(1)), Qty(ItemC, 1), EmptyMap, FALSE),
    Rec(ItemC, MachM, 2, None, EmptyMap, Qty(SELF_REFERENCE_KEYWORD, 1), TRUE),
    Rec(ItemC, MachN, 2, Some(BInt(1)), Qty(ItemB, 1), EmptyMap, FALSE),
    Rec(ItemC, MachM, 60, None, Qty(ItemA, 1) @@ Qty(ItemB, 1), EmptyMap, FALSE) }

\* the largest number of [[recipes]] records in a catalog
MaxRecipes == 3

\* Records of different items never meet in one list of recipes_by_output,
\* so only the order among the records of one item is varied.
Catalogs ==
  UNION { { records \in [1..n -> RecipePool] :
              \A i \in 1..(n - 1) : StrCmp(records[i].id, records[i + 1].id) <= 0 }
          : n \in 0..MaxRecipes }

\* 2^30 per minute: a request whose machine counts and powers leave the u32 range
Amounts == {BInt(0), BInt(1), BInt(100), BInt(1073741824)}

Init ==
  /\ \E records \in Catalogs :
       LET data == GameDataNew(records, MachineRecords)
       IN /\ recipes = data.recipes
          /\ recipes_by_output = data.recipes_by_output
          /\ machines = data.machines
  /\ visiting = {}
  /\ stack = <<>>
  /\ result = None
  /\ sel = None
  /\ calc = None
  /\ totals = None
  /\ keys = None
  /\ norm = None

\* cli main.rs lines 30-39: a fresh HashSet and the call of plan_production,
\* which hands its arguments to resolve
PlanProduction ==
  /\ stack = <<>>
  /\ result = None
  /\ \E item_id \in Items, amount \in Amounts :
       stack' = <<Frame(item_id, amount, {})>>
  /\ visiting' = {}
  /\ UNCHANGED <<catalog, result, sel, calc, totals, keys, norm>>

Next ==
  \/ PlanProduction
  \/ ResolveEnter
  \/ SkipInput
  \/ CallInput
  \/ ResolveReturn

Spec == Init /\ [][Next]_vars

\* ------------------------------------------------------------------------
\* The caller's summary of the returned tree (output/display.rs lines
\* 61-71, web app.rs lines 299-353): every public aggregation applied to
\* the node plan_production returned.  Whether the build checks integer
\* overflow is not fixed by the sources.
\* ------------------------------------------------------------------------
Summarize ==
  /\ result # None
  /\ totals = None
  /\ \E overflow_checks \in BOOLEAN :
       totals' = Some([
         overflow_checks |-> overflow_checks,
         utilization |-> utilization(result[1]),
         total_power |-> total_power(result[1], overflow_checks),
         total_power_exclude_source |->
           total_power_exclude_source(result[1], overflow_checks),
         total_source_materials |->
           total_source_materials(result[1], overflow_checks),
         total_machines |-> total_machines(result[1], overflow_checks),
         total_machines_exclude_source |->
           total_machines_exclude_source(result[1], overflow_checks)])
  /\ UNCHANGED <<catalog, visiting, stack, result, sel, calc, keys, norm>>

SumNext ==
  \/ Next
  \/ Summarize

SumSpec == Init /\ [][SumNext]_vars

\* ------------------------------------------------------------------------
\* select_best_recipe on hand-built tables, as its unit tests build them
\* ------------------------------------------------------------------------
Key1 == <<"k", "1">>

Key2 == <<"k", "2">>

\* a key listed in recipes_by_output with no entry in recipes
KeyX == <<"k", "x">>

SelRecipes ==
  { Rec(id, by, 60, None, inputs, Qty(id, 1), is_source) :
      id \in {ItemA, ItemB}, by \in {MachM, MachN, MachH},
      inputs \in {EmptyMap, Qty(ItemA, 1), Qty(ItemB, 1)},
      is_source \in BOOLEAN }

SelTables ==
  { [recipes |-> EmptyMap, recipes_by_output |-> EmptyMap],
    [recipes |-> EmptyMap, recipes_by_output |-> ItemA :> <<>>],
    [recipes |-> EmptyMap, recipes_by_output |-> ItemA :> <<KeyX>>] }
  \cup { [recipes |-> Key1 :> r1, recipes_by_output |-> ItemA :> <<KeyX, Key1>>] :
           r1 \in SelRecipes }
  \cup { [recipes |-> Key1 :> r1 @@ Key2 :> r2,
          recipes_by_output |-> ItemA :> <<Key1, Key2>>] :
           r1 \in SelRecipes, r2 \in SelRecipes }

SelMachines ==
  { LoadMachines(<<Machine(MachM, 1, 5), Machine(MachN, tier, power)>>, EmptyMap) :
      tier \in {0, 1, 2}, power \in {0, 5, 10} }

SelVisiting == {{}, {ItemA}, {ItemA, ItemB}}

SelInit ==
  /\ \E t \in SelTables :
       /\ recipes = t.recipes
       /\ recipes_by_output = t.recipes_by_output
  /\ machines \in SelMachines
  /\ visiting \in SelVisiting
  /\ stack = <<>>
  /\ result = None
  /\ sel = None
  /\ calc = None
  /\ totals = None
  /\ keys = None
  /\ norm = None

SelectBestRecipe ==
  /\ sel = None
  /\ \E item_id \in {ItemA, ItemB} :
       sel' = Some([item_id |-> item_id,
                    ret |-> select_best_recipe(item_id, recipes, recipes_by_output,
                                               machines, visiting)])
  /\ UNCHANGED <<catalog, visiting, stack, result, calc, totals, keys, norm>>

SelNext == SelectBestRecipe

SelSpec == SelInit /\ [][SelNext]_vars

\* ------------------------------------------------------------------------
\* select_best_recipe on catalogs GameData::new builds from record lists in
\* every order; ids are arbitrary strings
\* ------------------------------------------------------------------------
LoadInit ==
  /\ LET Pool == { Rec(ItemA, <<"b", "@", "m">>, 2, Some(BInt(1)), EmptyMap, EmptyMap, FALSE),
                   Rec(<<"a", "@", "b">>, MachM, 2, Some(BInt(1)), EmptyMap, EmptyMap, FALSE),
                   Rec(ItemA, MachM, 2, Some(BInt(1)), EmptyMap, EmptyMap, FALSE),
                   Rec(ItemA, MachM, 2, Some(BInt(1)), Qty(ItemB, 1), EmptyMap, FALSE),
                   Rec(ItemA, MachN, 2, Some(BInt(1)), EmptyMap, EmptyMap, FALSE),
                   Rec(ItemB, MachM, 2, Some(BInt(1)), Qty(ItemA, 1), EmptyMap, FALSE) }
     IN \E records \in UNION {[1..n -> Pool] : n \in 0..MaxRecipes} :
          LET data == GameDataNew(records, MachineRecords)
          IN /\ recipes = data.recipes
             /\ recipes_by_output = data.recipes_by_output
             /\ machines = data.machines
  /\ visiting \in {{}, {ItemB}}
  /\ stack = <<>>
  /\ result = None
  /\ sel = None
  /\ calc = None
  /\ totals = None
  /\ keys = None
  /\ norm = None

LoadSpec == LoadInit /\ [][SelNext]_vars

\* ------------------------------------------------------------------------
\* calculate on single recipes
\* ------------------------------------------------------------------------
\* targets 0..MaxTarget are all tried
MaxTarget == 31

CalcTimes == {BInt(0), BInt(2), BInt(27), BInt(60), BInt(1048576)}

\* outputs[item_id]; None: item_id is not a key of outputs
CalcOutputs == {None, Some(BInt(0)), Some(BInt(1)), Some(BInt(2)), Some(BInt(3))}

CalcTargets == {BInt(n) : n \in 0..MaxTarget} \cup {BInt(90), BInt(100), BInt(1048576)}

CalcMachines == {None, Some(Machine(MachM, 1, 5))}

CalcInit ==
  /\ recipes = EmptyMap
  /\ recipes_by_output = EmptyMap
  /\ machines = EmptyMap
  /\ visiting = {}
  /\ stack = <<>>
  /\ result = None
  /\ sel = None
  /\ calc = None
  /\ totals = None
  /\ keys = None
  /\ norm = None

Calculate ==
  /\ calc = None
  /\ \E time \in CalcTimes, out \in CalcOutputs, target_amount \in CalcTargets,
        machine \in CalcMachines :
       LET recipe == Rec(ItemA, MachM, 0, None, EmptyMap,
                         IF out = None THEN EmptyMap ELSE ItemA :> out[1], FALSE)
           timed == [recipe EXCEPT !.time = time]
       IN calc' = Some([recipe |-> timed, machine |-> machine,
                        target_amount |-> target_amount, item_id |-> ItemA,
                        ret |-> calculate(timed, machine, target_amount, ItemA)])
  /\ UNCHANGED <<catalog, visiting, stack, result, sel, totals, keys, norm>>

CalcNext == Calculate

CalcSpec == CalcInit /\ [][CalcNext]_vars

\* ------------------------------------------------------------------------
\* compute_unique_id on pairs of recipes.  A recipe's inputs are inserted
\* into its HashMap in some order and iterated in an order the HashMap
\* chooses; ids are arbitrary strings and may hold the characters the key
\* is built with.
\* ------------------------------------------------------------------------
\* a recipe has at most MaxInputs inputs
MaxInputs == 2

RECURSIVE sort_by_key(_)
\* Vec::sort_by_key(|(k, _)| *k): stable, ascending by the key of the pair
sort_by_key(pairs) ==
  IF pairs = <<>> THEN <<>>
  ELSE LET Insert(x, sorted) ==
             LET before == {i \in 1..Len(sorted) : StrCmp(sorted[i][1], x[1]) <= 0}
             IN SubSeq(sorted, 1, Cardinality(before)) \o <<x>>
                \o SubSeq(sorted, Cardinality(before) + 1, Len(sorted))
       IN Insert(pairs[Len(pairs)], sort_by_key(SubSeq(pairs, 1, Len(pairs) - 1)))

KeyInit ==
  /\ recipes = EmptyMap
  /\ recipes_by_output = EmptyMap
  /\ machines = EmptyMap
  /\ visiting = {}
  /\ stack = <<>>
  /\ result = None
  /\ sel = None
  /\ calc = None
  /\ totals = None
  /\ norm = None
  /\ LET Ids == {<<"a">>, <<"a", "@", "b">>}
         Bys == {<<"m">>, <<"b", "@", "m">>}
         InputIds == {<<"b">>, <<"c">>, <<"b", ":", "1", ",", "c">>}
         Counts == {BInt(1), BInt(2)}
         \* the (input id, count) pairs in the order they are inserted
         Inserted == {e \in UNION {[1..n -> InputIds \X Counts] : n \in 0..MaxInputs} :
                        \A i, j \in DOMAIN e : i # j => e[i][1] # e[j][1]}
         Collected(e) == [k \in {e[i][1] : i \in DOMAIN e} |->
                           (CHOOSE x \in {e[i] : i \in DOMAIN e} : x[1] = k)[2]]
         Recipes == {[id |-> id, by |-> by, time |-> BInt(2), out |-> None,
                      inputs |-> Collected(e), outputs |-> EmptyMap,
                      is_source |-> FALSE] :
                       id \in Ids, by \in Bys, e \in Inserted}
     IN \E first \in Recipes, second \in Recipes :
          keys = Some([first |-> first, second |-> second, ids |-> None])

\* compute_unique_id on both recipes; iter() yields the entries of inputs in
\* an order of the HashMap's choosing
ComputeUniqueId ==
  /\ keys # None
  /\ keys[1].ids = None
  /\ LET Iterations(r) ==
           {it \in [1..Cardinality(DOMAIN r.inputs) -> DOMAIN r.inputs] :
              \A i, j \in DOMAIN it : i # j => it[i] # it[j]}
         UniqueId(r, it) ==
           LET sorted_inputs == sort_by_key([i \in DOMAIN it |-> <<it[i], r.inputs[it[i]]>>])
           IN r.id \o <<"@">> \o r.by \o <<"[">>
              \o JoinInputs([i \in DOMAIN sorted_inputs |-> sorted_inputs[i][1]], r.inputs)
              \o <<"]">>
     IN \E it1 \in Iterations(keys[1].first), it2 \in Iterations(keys[1].second) :
          keys' = Some([keys[1] EXCEPT !.ids =
                          Some(<<UniqueId(keys[1].first, it1),
                                 UniqueId(keys[1].second, it2)>>)])
  /\ UNCHANGED <<catalog, visiting, stack, result, sel, calc, totals, norm>>

KeyNext == ComputeUniqueId

KeySpec == KeyInit /\ [][KeyNext]_vars

\* ------------------------------------------------------------------------
\* Recipe::normalize on single parsed records: the shorthand out, the
\* outputs table and the placeholder key in every combination
\* ------------------------------------------------------------------------
NormInit ==
  /\ recipes = EmptyMap
  /\ recipes_by_output = EmptyMap
  /\ machines = EmptyMap
  /\ visiting = {}
  /\ stack = <<>>
  /\ result = None
  /\ sel = None
  /\ calc = None
  /\ totals = None
  /\ keys = None
  /\ \E id \in {ItemA, SELF_REFERENCE_KEYWORD},
        out \in {None, Some(BInt(1)), Some(BInt(2))},
        named \in SUBSET {ItemA, ItemB, SELF_REFERENCE_KEYWORD} :
        \E outputs \in [named -> {BInt(1), BInt(3)}] :
          norm = Some([before |-> Rec(id, MachM, 2, out, EmptyMap, outputs, FALSE),
                       after |-> None])

\* loader.rs line 33: r.normalize()
Normalize ==
  /\ norm # None
  /\ norm[1].after = None
  /\ norm' = Some([norm[1] EXCEPT !.after = Some(normalize(norm[1].before))])
  /\ UNCHANGED <<catalog, visiting, stack, result, sel, calc, totals, keys>>

NormNext == Normalize

NormSpec == NormInit /\ [][NormNext]_vars

\* ------------------------------------------------------------------------
\* Properties of the dependency resolver
\* ------------------------------------------------------------------------
RECURSIVE IsProductionNode(_)
IsProductionNode(n) ==
  \/ /\ n.tag = "Unresolved"
     /\ DOMAIN n = {"tag", "item_id", "amount"}
  \/ /\ n.tag = "Resolved"
     /\ DOMAIN n = {"tag", "item_id", "machine_id", "amount", "machine_count",
                    "load", "power_usage", "inputs", "is_source"}
     /\ \A i \in 1..Len(n.inputs) : IsProductionNode(n.inputs[i])

RECURSIVE NodesOf(_)
\* every node of a tree
NodesOf(n) ==
  {n} \cup (IF n.tag = "Resolved"
            THEN UNION {NodesOf(n.inputs[i]) : i \in 1..Len(n.inputs)}
            ELSE {})

ChildIds(children) == {children[i].item_id : i \in 1..Len(children)}

\* some recipe of item x consumes item y
Needs(x, y) ==
  \E key \in DOMAIN recipes : recipes[key].id = x /\ y \in DOMAIN recipes[key].inputs

Returned == stack = <<>> /\ result # None

RECURSIVE CallBudget(_)
\* the most steps one call of resolve at stack depth d can take: its entry,
\* one skip or one call with its own budget per input, its return; no call
\* is deeper than the number of items
CallBudget(d) ==
  IF d > Cardinality(Items) THEN 0
  ELSE 2 + Cardinality(Items) * (1 + CallBudget(d + 1))

\* the steps frame i may still take, its own return included
FrameBudget(i) ==
  IF stack[i].pc = "enter" THEN CallBudget(i)
  ELSE 1 + Cardinality(stack[i].todo) * (1 + CallBudget(i + 1))

RECURSIVE SumBudget(_)
SumBudget(i) == IF i = 0 THEN 0 ELSE FrameBudget(i) + SumBudget(i - 1)

\* a natural number that bounds the steps left before the top-level return
StepsLeft ==
  IF stack = <<>> THEN (IF result = None THEN 1 + CallBudget(1) ELSE 0)
  ELSE SumBudget(Len(stack))

\* some step of the resolver can be taken
CanStep ==
  \/ stack = <<>> /\ result = None
  \/ /\ stack # <<>>
     /\ \/ Top.pc = "enter"
        \/ Finished(Top)
        \/ Top.pc = "inputs" /\ \E input_id \in Top.todo :
             ShouldSkip(input_id) \/ Len(stack) < MaxDepth

\* C1: on every catalog, cyclic ones included, for every item and amount, the
\* top-level resolve started with an empty visiting set terminates and
\* returns a ProductionNode: every step strictly lowers a natural-number
\* bound on the steps left, a run that has not returned can always take a
\* step, and what is returned is a ProductionNode.
C1_ResolveTerminates ==
  /\ [][StepsLeft' < StepsLeft]_vars
  /\ [](StepsLeft >= 0)
  /\ [](~Returned => CanStep)
  /\ [](Returned => IsProductionNode(result[1]))

\* resolve has returned a tree that went round the cycle a -> b -> a up to
\* the repeated item
C1_Witness ==
  /\ Returned
  /\ Needs(ItemA, ItemB)
  /\ Needs(ItemB, ItemA)
  /\ result[1].tag = "Resolved"
  /\ result[1].item_id = ItemA
  /\ \E i \in 1..Len(result[1].inputs) :
       /\ result[1].inputs[i].tag = "Resolved"
       /\ result[1].inputs[i].item_id = ItemB

\* the recursion never needs more frames than there are items
DepthWithinItems == Len(stack) <= Cardinality(Items)

\* the catalog "A needs B, B needs A" and nothing else
CatalogAB ==
  /\ DOMAIN recipes_by_output = {ItemA, ItemB}
  /\ Cardinality(DOMAIN recipes) = 2
  /\ \A key \in DOMAIN recipes :
       \/ recipes[key].id = ItemA /\ DOMAIN recipes[key].inputs = {ItemB}
       \/ recipes[key].id = ItemB /\ DOMAIN recipes[key].inputs = {ItemA}

\* C2: the children of a Resolved node are exactly one node per input of
\* the selected recipe that is not in visiting; an input in visiting leaves
\* no node at all.  On "A needs B, B needs A" resolving A gives Resolved A
\* with the single child Resolved B, whose child list is empty.
C2_ChildrenAreUnvisitedInputs ==
  /\ (stack # <<>> /\ Top.pc = "inputs") =>
       LET iterated == DOMAIN Top.recipe[1].inputs \ Top.todo
       IN /\ ChildIds(Top.children) = iterated \ visiting
          /\ Len(Top.children) = Cardinality(iterated \ visiting)
          /\ \A i \in 1..Len(Top.children) : IsProductionNode(Top.children[i])
  /\ (Returned /\ CatalogAB /\ result[1].item_id = ItemA) =>
       /\ result[1].tag = "Resolved"
       /\ Len(result[1].inputs) = 1
       /\ result[1].inputs[1].tag = "Resolved"
       /\ result[1].inputs[1].item_id = ItemB
       /\ result[1].inputs[1].inputs = <<>>

\* a node whose recipe has two inputs is about to be returned with one child,
\* the other input having been skipped
C2_Witness ==
  /\ stack # <<>>
  /\ Top.pc = "inputs"
  /\ Top.todo = {}
  /\ Cardinality(DOMAIN Top.recipe[1].inputs) = 2
  /\ Len(Top.children) = 1

\* no recipe is registered and found for the item
NoCandidate(item_id) ==
  \/ item_id \notin DOMAIN recipes_by_output
  \/ \A i \in 1..Len(recipes_by_output[item_id]) :
       recipes_by_output[item_id][i] \notin DOMAIN recipes

\* the node a return step hands to its caller
Delivered(before, after, res) ==
  IF Len(before) = 1 THEN res[1]
  ELSE LET kids == after[Len(after)].children IN kids[Len(kids)]

IsReturnStep == stack # <<>> /\ Len(stack') < Len(stack)

\* C3: resolve returns Unresolved{item_id, amount} exactly when no candidate
\* recipe is registered and found for the item, at the root and at any depth;
\* otherwise the node is Resolved, also when every candidate is cyclic.
\* Every call returns a node: there is no error outcome.
C3_UnresolvedIffNoCandidate ==
  /\ [](\A i \in 1..Len(stack) :
          stack[i].pc # "enter" =>
            (stack[i].pc = "unresolved" <=> NoCandidate(stack[i].item_id)))
  /\ [](Returned =>
          \A n \in NodesOf(result[1]) :
            n.tag = "Unresolved" <=> NoCandidate(n.item_id))
  /\ [][IsReturnStep =>
          LET node == Delivered(stack, stack', result')
          IN /\ IsProductionNode(node)
             /\ node.item_id = Top.item_id
             /\ node.amount = Top.amount
             /\ NoCandidate(Top.item_id) =>
                  node = Unresolved(Top.item_id, Top.amount)]_vars

\* the returned tree has a Resolved child all of whose candidates consume
\* the root item, and an Unresolved child next to it
C3_Witness ==
  /\ Returned
  /\ result[1].tag = "Resolved"
  /\ \E i, j \in 1..Len(result[1].inputs) :
       /\ result[1].inputs[i].tag = "Resolved"
       /\ \A key \in DOMAIN recipes :
            recipes[key].id = result[1].inputs[i].item_id =>
              result[1].item_id \in DOMAIN recipes[key].inputs
       /\ result[1].inputs[j].tag = "Unresolved"

\* C4: a call resolve(item, amount, V) with item not in V returns with the
\* visiting set equal to V, for Resolved and Unresolved results at any depth;
\* the top-level call started with the empty set leaves it empty.
C4_VisitingRestored ==
  /\ [][(IsReturnStep /\ Top.item_id \notin Top.entry_visiting) =>
          visiting' = Top.entry_visiting]_vars
  /\ [](Returned => visiting = {})

\* a tree three levels deep has been returned and visiting is empty again
C4_Witness ==
  /\ Returned
  /\ visiting = {}
  /\ result[1].tag = "Resolved"
  /\ \E i \in 1..Len(result[1].inputs) :
       /\ result[1].inputs[i].tag = "Resolved"
       /\ result[1].inputs[i].inputs # <<>>

\* ------------------------------------------------------------------------
\* Properties of the recipe selector
\* ------------------------------------------------------------------------
\* the candidates of the recorded call that are found in the recipe table
SelCandidates ==
  IF sel = None \/ sel[1].item_id \notin DOMAIN recipes_by_output THEN <<>>
  ELSE FilterFound(recipes_by_output[sel[1].item_id], recipes)

Cyclic(r) == DOMAIN r.inputs \cap visiting # {}

\* tier and power of a recipe's machine; 0 for a machine not in the table
TierOf(r) == IF r.by \in DOMAIN machines THEN machines[r.by].tier ELSE BZero

PowerOf(r) == IF r.by \in DOMAIN machines THEN machines[r.by].power ELSE BZero

Selected(r) == sel[1].ret = Some(r)

C7_HigherTierThenLowerPower ==
  (sel # None /\ Len(SelCandidates) = 2) =>
    \A i, j \in 1..2 :
      ( /\ Cyclic(SelCandidates[i]) = Cyclic(SelCandidates[j])
        /\ SelCandidates[i].is_source = SelCandidates[j].is_source ) =>
        /\ BLt(TierOf(SelCandidates[j]), TierOf(SelCandidates[i])) =>
             Selected(SelCandidates[i])
        /\ ( /\ TierOf(SelCandidates[i]) = TierOf(SelCandidates[j])
             /\ BLt(PowerOf(SelCandidates[i]), PowerOf(SelCandidates[j])) ) =>
             Selected(SelCandidates[i])

\* a recipe whose machine is missing from the table was selected against one
\* on a machine of tier 0 that draws power
C7_Witness ==
  /\ sel # None
  /\ Len(SelCandidates) = 2
  /\ \E i, j \in 1..2 :
       /\ Cyclic(SelCandidates[i]) = Cyclic(SelCandidates[j])
       /\ SelCandidates[i].is_source = SelCandidates[j].is_source
       /\ SelCandidates[i].by \notin DOMAIN machines
       /\ SelCandidates[j].by \in DOMAIN machines
       /\ TierOf(SelCandidates[j]) = BZero
       /\ BLt(BZero, PowerOf(SelCandidates[j]))
       /\ Selected(SelCandidates[i])

\* C8: of two candidates equal in cyclic status, is_source, machine tier and
\* machine power whose recipe ids differ, the one with the lexicographically
\* smaller recipe id is selected.
C8_SmallerIdWins ==
  (sel # None /\ Len(SelCandidates) = 2) =>
    \A i, j \in 1..2 :
      ( /\ Cyclic(SelCandidates[i]) = Cyclic(SelCandidates[j])
        /\ SelCandidates[i].is_source = SelCandidates[j].is_source
        /\ TierOf(SelCandidates[i]) = TierOf(SelCandidates[j])
        /\ PowerOf(SelCandidates[i]) = PowerOf(SelCandidates[j])
        /\ StrCmp(SelCandidates[i].id, SelCandidates[j].id) < 0 ) =>
        Selected(SelCandidates[i])

\* ------------------------------------------------------------------------
\* Properties of the quantity calculator
\* ------------------------------------------------------------------------
\* output_per_craft of the recorded call, as a natural
OutputPerCraft == UnwrapOr(MapGet(calc[1].recipe.outputs, calc[1].item_id), BOne)

\* required_machines of the recorded call, recomputed from required_crafts
RequiredMachines ==
  F64Div(F64Mul(F64FromU32(calc[1].recipe.time), calc[1].ret.required_crafts),
         PRODUCTION_TIME_WINDOW)

\* C9: for every target_amount and every recipe with output_per_craft >= 1,
\* machine_count = ceil(cycle_time * target_amount / (output_per_craft * 60))
\* and required_crafts = target_amount / output_per_craft.
C9_MachineCountIsCeil ==
  (calc # None /\ BLe(BOne, OutputPerCraft)) =>
    /\ calc[1].ret.machine_count =
         BCeilDiv(BMul(calc[1].recipe.time, calc[1].target_amount),
                  BMul(OutputPerCraft, BInt(60)))
    /\ calc[1].ret.required_crafts =
         F64Div(F64FromU32(calc[1].target_amount), F64FromU32(OutputPerCraft))

\* C10: load = required_machine_time / machine_count when machine_count > 0,
\* so 0 < load <= 1, with load = 1 exactly when required_machine_time is a
\* whole number; when machine_count = 0 load is the sentinel 1.0.  Stated for
\* the recipes whose output_per_craft is at least 1.
C10_LoadWithinUnit ==
  (calc # None /\ BLe(BOne, OutputPerCraft)) =>
    IF calc[1].ret.machine_count # BZero
    THEN /\ calc[1].ret.load =
              F64Div(RequiredMachines, F64FromU32(calc[1].ret.machine_count))
         /\ F64Cmp(F64Zero, calc[1].ret.load) < 0
         /\ F64Cmp(calc[1].ret.load, F64One) <= 0
         /\ calc[1].ret.load = F64One <=>
              (RequiredMachines.k = "fin" /\ RequiredMachines.e >= 0)
    ELSE calc[1].ret.load = F64One

\* C11: power_usage = machine.power * machine_count when the product fits
\* in 32 bits and u32::MAX otherwise; with no machine power_usage = 0.
C11_PowerUsageClamped ==
  calc # None =>
    IF calc[1].machine = None THEN calc[1].ret.power_usage = BZero
    ELSE IF BLe(BMul(calc[1].machine[1].power, calc[1].ret.machine_count), U32Max)
         THEN calc[1].ret.power_usage =
                BMul(calc[1].machine[1].power, calc[1].ret.machine_count)
         ELSE calc[1].ret.power_usage = U32Max

\* a call with a machine whose product exceeds u32::MAX
C11_Witness ==
  /\ calc # None
  /\ calc[1].machine # None
  /\ BLt(U32Max, BMul(calc[1].machine[1].power, calc[1].ret.machine_count))
  /\ calc[1].ret.power_usage = U32Max

\* ------------------------------------------------------------------------
\* Properties of the aggregations
\* ------------------------------------------------------------------------
RECURSIVE NodeSeq(_)
RECURSIVE NodeSeqFrom(_, _)
NodeSeqFrom(inputs, i) ==
  IF i > Len(inputs) THEN <<>>
  ELSE NodeSeq(inputs[i]) \o NodeSeqFrom(inputs, i + 1)

\* the nodes of a tree, one entry per position in the tree
NodeSeq(n) ==
  <<n>> \o (IF n.tag = "Resolved" THEN NodeSeqFrom(n.inputs, 1) ELSE <<>>)

\* the nodes of the returned tree
ResultNodes == NodeSeq(result[1])

C13_LeafRecipeHasNoInputs ==
  /\ \A i \in 1..Len(stack) :
       (stack[i].pc = "inputs" /\ stack[i].todo = {} /\ stack[i].children = <<>>)
         => DOMAIN stack[i].recipe[1].inputs = {}
  /\ (totals # None /\ ~totals[1].total_source_materials.panic) =>
       \A id \in DOMAIN totals[1].total_source_materials.value :
         \/ NoCandidate(id)
         \/ \E key \in DOMAIN recipes :
              recipes[key].id = id /\ DOMAIN recipes[key].inputs = {}

PowerSum ==
  BSum([i \in 1..Len(ResultNodes) |->
          IF ResultNodes[i].tag = "Resolved"
          THEN ResultNodes[i].power_usage ELSE BZero])

RECURSIVE NonSourcePower(_)
\* the unbounded sum of power_usage over the Resolved nodes of a tree,
\* leaving out every is_source node together with its subtree
NonSourcePower(n) ==
  IF n.tag = "Resolved" /\ ~n.is_source
  THEN BAdd(n.power_usage,
            BSum([i \in 1..Len(n.inputs) |-> NonSourcePower(n.inputs[i])]))
  ELSE BZero

\* C16: total_power_exclude_source() is the sum of power_usage over the
\* Resolved nodes, except that every is_source node, at the root or at any
\* depth, contributes 0 and its subtree is excluded; for a non-source root
\* whose children are all is_source leaves it is the root's power_usage.
C16_ExcludeSourceAtEveryDepth ==
  (totals # None /\ BLe(PowerSum, U32Max)) =>
    totals[1].total_power_exclude_source = Ok(NonSourcePower(result[1]))

\* C17: utilization() is an integer in 0..100, equal to round(100 * U(root))
\* clamped to [0, 100], where U(n) = load(n) for a Resolved node without
\* children and load(n) times the product of U over the children otherwise.
C17_UtilizationIsLoadProduct ==
  LET RECURSIVE LoadProduct(_)
      \* U(n) in f64, for a tree of Resolved nodes
      LoadProduct(n) ==
        LET Rest[i \in 0..Len(n.inputs)] ==
              IF i = 0 THEN F64One
              ELSE F64Mul(Rest[i - 1], LoadProduct(n.inputs[i]))
        IN IF n.inputs = <<>> THEN n.load ELSE F64Mul(n.load, Rest[Len(n.inputs)])
      \* the integer nearest to a finite x = m * 2^e >= 0, halves up, at most 100
      Percent(x) ==
        LET rounded == IF x.e >= 0 THEN BShl(x.m, x.e)
                       ELSE BShr(BAdd(BShl(x.m, 1), BShl(BOne, 0 - x.e)), 1 - x.e)
        IN BMin(rounded, BInt(100))
  IN totals # None =>
       /\ BLe(totals[1].utilization, BInt(100))
       /\ (\A i \in 1..Len(ResultNodes) :
             ResultNodes[i].tag = "Resolved" /\ ResultNodes[i].load.k = "fin") =>
            totals[1].utilization =
              Percent(F64Mul(LoadProduct(result[1]), F64FromU32(BInt(100))))

\* a root with two children and a grandchild, all Resolved, whose
\* utilization is neither 0 nor 100
C17_Witness ==
  /\ totals # None
  /\ \A i \in 1..Len(ResultNodes) :
       ResultNodes[i].tag = "Resolved" /\ ResultNodes[i].load.k = "fin"
  /\ Len(result[1].inputs) = 2
  /\ Len(ResultNodes) >= 4
  /\ BLt(BZero, totals[1].utilization)
  /\ BLt(totals[1].utilization, BInt(100))

\* C18: overflow in the power computation is clamped, not raised: on every
\* tree resolve returns, total_power() and total_power_exclude_source()
\* return without arithmetic overflow; the accumulation of the per-node
\* power_usage values never aborts and never wraps around, so total_power()
\* is the sum held at u32::MAX and neither result is below the root's own
\* power_usage that it accumulated.
C18_PowerSumNeverOverflows ==
  totals # None =>
    /\ ~totals[1].total_power.panic
    /\ ~totals[1].total_power_exclude_source.panic
    /\ totals[1].total_power.value = BMin(PowerSum, U32Max)
    /\ (result[1].tag = "Resolved" /\ ~result[1].is_source) =>
         BLe(result[1].power_usage, totals[1].total_power_exclude_source.value)

\* C19: when the selected recipe's produced_by has no entry in the machine
\* table, resolution does not fail: the node is Resolved with the one
\* sentinel machine id, power_usage = 0, and machine_count and load as the
\* usual formulas give them for a machine that exists; its inputs are still
\* expanded, one child per input not in visiting.
C19_MissingMachineStillResolves ==
  /\ \A i \in 1..Len(stack) :
       (stack[i].pc = "inputs" /\ MapGet(machines, stack[i].recipe[1].by) = None) =>
         LET f == stack[i]
             usual == calculate(f.recipe[1], Some(Machine(f.recipe[1].by, 1, 1)),
                                f.amount, f.item_id)
         IN /\ f.machine_id = MISSING_MACHINE
            /\ f.calc[1].power_usage = BZero
            /\ f.calc[1].machine_count = usual.machine_count
            /\ f.calc[1].load = usual.load
            /\ f.calc[1].required_crafts = usual.required_crafts
            /\ NodeOf(f).tag = "Resolved"
            /\ i = Len(stack) =>
                 ChildIds(f.children) = (DOMAIN f.recipe[1].inputs \ f.todo) \ visiting
  /\ Returned =>
       \A i \in 1..Len(ResultNodes) :
         (ResultNodes[i].tag = "Resolved"
            /\ MapGet(machines, ResultNodes[i].machine_id) = None) =>
           /\ ResultNodes[i].machine_id = MISSING_MACHINE
           /\ ResultNodes[i].power_usage = BZero

\* a frame whose recipe names a machine absent from the table is about to
\* return a node with machines counted and its input expanded into a child
C19_Witness ==
  /\ stack # <<>>
  /\ Top.pc = "inputs"
  /\ Top.todo = {}
  /\ MapGet(machines, Top.recipe[1].by) = None
  /\ Top.machine_id = MISSING_MACHINE
  /\ BLt(BZero, Top.calc[1].machine_count)
  /\ DOMAIN Top.recipe[1].inputs # {}
  /\ Len(Top.children) = Cardinality(DOMAIN Top.recipe[1].inputs)
  /\ Top.children[1].tag = "Resolved"

\* ------------------------------------------------------------------------
\* Properties of the recipe keys
\* ------------------------------------------------------------------------
\* C20: compute_unique_id gives the same key for two recipes with the same
\* id, the same produced_by and the same input-to-quantity mapping, whatever
\* the order in which the inputs were inserted or are iterated, and different
\* keys for two recipes that differ in id, in produced_by or in the set of
\* (input id, quantity) pairs.
C20_UniqueIdIdentifiesRecipe ==
  (keys # None /\ keys[1].ids # None) =>
    LET first == keys[1].first
        second == keys[1].second
        ids == keys[1].ids[1]
    IN /\ ids[1] = compute_unique_id(first)
       /\ ids[2] = compute_unique_id(second)
       /\ ids[1] = ids[2] <=>
            /\ first.id = second.id
            /\ first.by = second.by
            /\ first.inputs = second.inputs

\* ------------------------------------------------------------------------
\* Properties of selection inside resolve
\* ------------------------------------------------------------------------
\* C21: when the item being resolved has two candidate recipes equal in
\* source flag, machine tier and power, one whose input is produced only
\* from the item being resolved and one whose inputs do not lead back to
\* it, resolve selects the one that does not lead back, whatever the order
\* of the two candidates in the index.
C21_AvoidsRecipeLeadingBack ==
  \A d \in 1..Len(stack) :
    stack[d].pc = "inputs" =>
      LET x == stack[d].item_id
          RecipesOf(y) == {r \in {recipes[k] : k \in DOMAIN recipes} : r.id = y}
          Candidates == {recipes[k] : k \in
                           {recipes_by_output[x][i] : i \in 1..Len(recipes_by_output[x])}
                           \cap DOMAIN recipes}
          InputsOf(set) == UNION {DOMAIN r.inputs : r \in UNION {RecipesOf(y) : y \in set}}
          Grow(set) == set \cup InputsOf(set)
          \* the items needed, directly or not, to make one of the items of set
          Below(set) == Grow(Grow(Grow(InputsOf(set))))
          MadeOnlyFrom(y) == RecipesOf(y) # {} /\ \A r \in RecipesOf(y) : x \in DOMAIN r.inputs
      IN \A back, clear \in Candidates :
           ( /\ Candidates = {back, clear}
             /\ back # clear
             /\ back.is_source = clear.is_source
             /\ machine_tier(machines, back) = machine_tier(machines, clear)
             /\ machine_power(machines, back) = machine_power(machines, clear)
             /\ \E y \in DOMAIN back.inputs : y # x /\ MadeOnlyFrom(y)
             /\ x \notin DOMAIN clear.inputs \cup Below(DOMAIN clear.inputs) )
           => stack[d].recipe[1] = clear

\* ------------------------------------------------------------------------
\* Properties of the loaded catalog
\* ------------------------------------------------------------------------
\* C22: after GameData::new the recipe table and the output index are
\* consistent: every loaded record has its own unique key, so the table has
\* one entry per record (the index receives one key per record);
\* recipes_by_output[x] lists exactly the keys of the records whose id is
\* x, each key once, and every listed key is in the table and maps to a
\* recipe with id x.
C22_TableAndIndexConsistent ==
  LET Listed(x) == {recipes_by_output[x][i] : i \in 1..Len(recipes_by_output[x])}
  IN /\ \A x \in DOMAIN recipes_by_output :
          /\ Cardinality(Listed(x)) = Len(recipes_by_output[x])
          /\ \A key \in Listed(x) : key \in DOMAIN recipes /\ recipes[key].id = x
          /\ Listed(x) = {key \in DOMAIN recipes : recipes[key].id = x}
     /\ \A key \in DOMAIN recipes : recipes[key].id \in DOMAIN recipes_by_output
     /\ BInt(Cardinality(DOMAIN recipes)) =
          BSum([i \in 1..Cardinality(DOMAIN recipes_by_output) |->
                  BInt(Len(recipes_by_output[
                    CHOOSE x \in DOMAIN recipes_by_output :
                      Cardinality({o \in DOMAIN recipes_by_output : StrCmp(o, x) < 0})
                        = i - 1]))])

\* C23: after Recipe::normalize a recipe given with the shorthand count n
\* has outputs[id] = n; a recipe whose outputs hold the placeholder 'this'
\* with count n has outputs[id] = n and no 'this' key any more; every other
\* entry of outputs is unchanged and no entry is added.
C23_NormalizeFillsOutputs ==
  (norm # None /\ norm[1].after # None) =>
    LET before == norm[1].before
        after == norm[1].after[1]
        others == DOMAIN before.outputs \ {before.id, SELF_REFERENCE_KEYWORD}
    IN /\ before.out # None =>
            MapGet(after.outputs, before.id) = Some(before.out[1])
       /\ SELF_REFERENCE_KEYWORD \in DOMAIN before.outputs =>
            /\ MapGet(after.outputs, before.id)
                 = Some(before.outputs[SELF_REFERENCE_KEYWORD])
            /\ SELF_REFERENCE_KEYWORD \notin DOMAIN after.outputs
       /\ \A k \in others : MapGet(after.outputs, k) = Some(before.outputs[k])
       /\ DOMAIN after.outputs \subseteq others \cup {before.id}
       /\ (before.out = None /\ SELF_REFERENCE_KEYWORD \notin DOMAIN before.outputs) =>
            after.outputs = before.outputs
       /\ [after EXCEPT !.outputs = before.outputs] = before

\* ------------------------------------------------------------------------
\* Properties of the visiting set and of the shape of the tree
\* ------------------------------------------------------------------------
\* C24: in a resolution started with an empty visiting set, at every recipe
\* selection and every input expansion visiting is exactly the set of item
\* ids on the active call path, and resolve is never entered for an item
\* already in visiting; so no item id occurs twice on a root-to-node path of
\* the returned tree and its depth is at most the number of distinct item
\* ids.
C24_VisitingIsCallPath ==
  LET Path(n) == {stack[i].item_id : i \in 1..n}
      Known == {recipes[k].id : k \in DOMAIN recipes}
               \cup UNION {DOMAIN recipes[k].inputs : k \in DOMAIN recipes}
      RECURSIVE NoRepeat(_, _)
      NoRepeat(n, seen) ==
        /\ n.item_id \notin seen
        /\ n.tag = "Resolved" =>
             \A i \in 1..Len(n.inputs) : NoRepeat(n.inputs[i], seen \cup {n.item_id})
      RECURSIVE Depth(_)
      Depth(n) ==
        IF n.tag = "Resolved" /\ n.inputs # <<>>
        THEN 1 + (CHOOSE m \in {Depth(n.inputs[i]) : i \in 1..Len(n.inputs)} :
                    \A i \in 1..Len(n.inputs) : Depth(n.inputs[i]) <= m)
        ELSE 1
  IN /\ stack # <<>> =>
          IF Top.pc = "enter"
          THEN visiting = Path(Len(stack) - 1) /\ Top.item_id \notin visiting
          ELSE visiting = Path(Len(stack))
     /\ \A d \in 1..Len(stack) : stack[d].entry_visiting = Path(d - 1)
     /\ Cardinality(Path(Len(stack))) = Len(stack)
     /\ Returned =>
          /\ NoRepeat(result[1], {})
          /\ Depth(result[1]) <= Cardinality(Known \cup {result[1].item_id})

\* three nested calls: the innermost is expanding its inputs, one of which
\* is an ancestor
C24_Witness ==
  /\ Len(stack) = 3
  /\ Top.pc = "inputs"
  /\ visiting = {stack[1].item_id, stack[2].item_id, stack[3].item_id}
  /\ Cardinality(visiting) = 3
  /\ \E input_id \in Top.todo : input_id \in visiting

RECURSIVE ResolveTree(_, _, _)
\* the node resolve returns for item_id and amount when entered with the
\* set ancestors in visiting, as a function of the catalog alone; the
\* children are listed in ascending order of their item ids
ResolveTree(item_id, amount, ancestors) ==
  LET Built(recipe, machine, inserted) ==
        LET Expanded(made, ids) ==
              Resolved(item_id,
                       IF machine = None THEN MISSING_MACHINE ELSE machine[1].id,
                       amount, made.machine_count, made.load, made.power_usage,
                       [i \in 1..Len(ids) |->
                          ResolveTree(ids[i],
                                      sub_amount(recipe.inputs[ids[i]], made.required_crafts),
                                      inserted)],
                       recipe.is_source)
        IN Expanded(calculate(recipe, machine, amount, item_id),
                    SortedKeys(DOMAIN recipe.inputs \ inserted))
      Chosen(choice, inserted) ==
        IF choice = None THEN Unresolved(item_id, amount)
        ELSE Built(choice[1], MapGet(machines, choice[1].by), inserted)
  IN Chosen(select_best_recipe(item_id, recipes, recipes_by_output, machines,
                               ancestors \cup {item_id}),
            ancestors \cup {item_id})

\* C25: sibling branches are resolved independently: the subtree built for
\* an input depends only on the catalog, the input's item id, its amount
\* and the set of its ancestors, not on the siblings expanded before it or
\* on the order of expansion; an item needed in two branches is resolved in
\* both and appears as two separate subtrees.
C25_SubtreeDependsOnAncestorsOnly ==
  LET RECURSIVE Sorted(_)
      \* the node with the children of every node in ascending order of item id
      Sorted(n) ==
        IF n.tag = "Resolved"
        THEN LET ids == SortedKeys({n.inputs[i].item_id : i \in 1..Len(n.inputs)})
             IN [n EXCEPT !.inputs =
                   [j \in 1..Len(ids) |->
                      Sorted(n.inputs[CHOOSE i \in 1..Len(n.inputs) :
                                        n.inputs[i].item_id = ids[j]])]]
        ELSE n
  IN /\ \A d \in 1..Len(stack) :
          \A c \in 1..Len(stack[d].children) :
            Sorted(stack[d].children[c]) =
              ResolveTree(stack[d].children[c].item_id,
                          stack[d].children[c].amount,
                          stack[d].entry_visiting \cup {stack[d].item_id})
     /\ Returned =>
          Sorted(result[1]) = ResolveTree(result[1].item_id, result[1].amount, {})

\* the returned root has two children; the item of the second is also
\* resolved inside the first branch, and again as the second child
C25_Witness ==
  /\ Returned
  /\ result[1].tag = "Resolved"
  /\ Len(result[1].inputs) = 2
  /\ \E one, other \in 1..2 :
       /\ one # other
       /\ result[1].inputs[one].tag = "Resolved"
       /\ result[1].inputs[other].tag = "Resolved"
       /\ \E g \in 1..Len(result[1].inputs[one].inputs) :
            /\ result[1].inputs[one].inputs[g].tag = "Resolved"
            /\ result[1].inputs[one].inputs[g].item_id = result[1].inputs[other].item_id

\* C26: for every Resolved node with requested amount a, selected recipe r
\* and output_per_craft o, each child built for an input (i, q) of r is the
\* result of resolving item i at amount ceil(q * a / o), the quotient taken
\* exactly; the node itself records item_id, amount = a, is_source =
\* r.is_source and the machine_count, load and power_usage that
\* calculate(r, machine, a, item) returns.
C26_ChildAmountIsCeil ==
  /\ \A d \in 2..Len(stack) :
       LET parent == stack[d - 1]
           q == parent.recipe[1].inputs[stack[d].item_id]
           o == UnwrapOr(MapGet(parent.recipe[1].outputs, parent.item_id), BOne)
       IN BLe(BOne, o) => stack[d].amount = BCeilDiv(BMul(q, parent.amount), o)
  /\ \A d \in 1..Len(stack) :
       (stack[d].pc = "inputs" /\ stack[d].todo = {}) =>
         LET f == stack[d]
             made == calculate(f.recipe[1], MapGet(machines, f.recipe[1].by),
                               f.amount, f.item_id)
         IN /\ NodeOf(f).item_id = f.item_id
            /\ NodeOf(f).amount = f.amount
            /\ NodeOf(f).is_source = f.recipe[1].is_source
            /\ NodeOf(f).machine_count = made.machine_count
            /\ NodeOf(f).load = made.load
            /\ NodeOf(f).power_usage = made.power_usage

\* C27: resolve inserts the item into visiting before it consults the
\* selector, so while a recipe for X is selected a candidate listing X
\* among its inputs counts as cyclic, also at the top level with an
\* initially empty visiting set: it loses to every candidate for X with no
\* input in visiting, and when it is selected anyway its X input yields no
\* child.
C27_OwnItemCountsAsVisited ==
  \A d \in 1..Len(stack) :
    stack[d].pc = "inputs" =>
      LET x == stack[d].item_id
          at_selection == stack[d].entry_visiting \cup {x}
          Candidates == {recipes[k] : k \in
                           {recipes_by_output[x][i] : i \in 1..Len(recipes_by_output[x])}
                           \cap DOMAIN recipes}
      IN /\ stack[d].recipe[1] \in Candidates
         /\ \A own \in Candidates :
              x \in DOMAIN own.inputs =>
                /\ has_cyclic_inputs(own, at_selection)
                /\ (\E clear \in Candidates : DOMAIN clear.inputs \cap at_selection = {})
                     => stack[d].recipe[1] # own
         /\ x \in DOMAIN stack[d].recipe[1].inputs =>
              /\ x \notin ChildIds(stack[d].children)
              /\ d < Len(stack) => stack[d + 1].item_id # x

\* the top-level call, entered with visiting empty, has chosen among a
\* candidate that consumes its own item, listed last, and one that does not
C27_Witness ==
  /\ Len(stack) = 1
  /\ Top.pc = "inputs"
  /\ Top.entry_visiting = {}
  /\ Len(recipes_by_output[Top.item_id]) = 2
  /\ Top.item_id \in DOMAIN recipes[recipes_by_output[Top.item_id][2]].inputs
  /\ Top.item_id \notin DOMAIN recipes[recipes_by_output[Top.item_id][1]].inputs
  /\ Top.recipe[1] = recipes[recipes_by_output[Top.item_id][1]]
  /\ CompareRecipes(recipes[recipes_by_output[Top.item_id][1]],
                    recipes[recipes_by_output[Top.item_id][2]], machines, {}) = 0

\* C28: utilization() is 0 for every tree that contains an Unresolved node
\* anywhere, whatever the loads of the Resolved nodes; a node with
\* machine_count = 0 has the load 1.0 and leaves the product unchanged.
C28_UnresolvedZeroesUtilization ==
  totals # None =>
    /\ (\E i \in 1..Len(ResultNodes) : ResultNodes[i].tag = "Unresolved")
         => totals[1].utilization = BZero
    /\ \A i \in 1..Len(ResultNodes) :
         (ResultNodes[i].tag = "Resolved" /\ ResultNodes[i].machine_count = BZero) =>
           /\ ResultNodes[i].load = F64One
           /\ total_utilization(ResultNodes[i]) =
                IF ResultNodes[i].inputs = <<>> THEN F64One
                ELSE ProductFrom(ResultNodes[i].inputs, 1, F64One)

\* an Unresolved node two levels below a root whose Resolved nodes are all
\* fully loaded
C28_Witness ==
  /\ totals # None
  /\ totals[1].utilization = BZero
  /\ result[1].tag = "Resolved"
  /\ \E c \in 1..Len(result[1].inputs) :
       /\ result[1].inputs[c].tag = "Resolved"
       /\ \E g \in 1..Len(result[1].inputs[c].inputs) :
            result[1].inputs[c].inputs[g].tag = "Unresolved"
  /\ \A i \in 1..Len(ResultNodes) :
       ResultNodes[i].tag = "Resolved" =>
         /\ ResultNodes[i].load = F64One
         /\ BLt(BZero, ResultNodes[i].machine_count)

\* ------------------------------------------------------------------------
\* Properties of selection on loaded catalogs
\* ------------------------------------------------------------------------
\* C29: in a catalog built by GameData::new all candidates of one item carry
\* the same recipe id, so rule 5 never separates them; among the
\* candidates tied on cyclic status, is_source, tier and power the selector
\* returns the one listed last in recipes_by_output[item], and it returns
\* the same recipe on every call with identical inputs.
C29_LastListedWinsTies ==
  sel # None =>
    LET n == Len(SelCandidates)
        \* rules 1 to 4: r is strictly preferred to o
        Preferred(r, o) ==
          IF Cyclic(r) # Cyclic(o) THEN ~Cyclic(r)
          ELSE IF r.is_source # o.is_source THEN r.is_source
          ELSE IF TierOf(r) # TierOf(o) THEN BLt(TierOf(o), TierOf(r))
          ELSE BLt(PowerOf(r), PowerOf(o))
        Best == {i \in 1..n : \A j \in 1..n : ~Preferred(SelCandidates[j], SelCandidates[i])}
    IN /\ \A i, j \in 1..n : SelCandidates[i].id = SelCandidates[j].id
       /\ n > 0 => Selected(SelCandidates[CHOOSE i \in Best : \A j \in Best : j <= i])
       /\ n = 0 => sel[1].ret = None
       /\ sel[1].ret = select_best_recipe(sel[1].item_id, recipes, recipes_by_output,
                                          machines, visiting)

\* ------------------------------------------------------------------------
\* Properties relating the trees of different amounts
\* ------------------------------------------------------------------------
\* C30: recipe selection and cycle skipping do not depend on the amount:
\* for one catalog and one item the trees resolved for two amounts have the
\* same shape (node variants, item ids, machine ids, is_source flags and
\* child structure) and differ only in amount, machine_count, load and
\* power_usage; a larger requested amount never gives a smaller
\* machine_count or a smaller child amount at any node.
C30_ShapeIndependentOfAmount ==
  LET RECURSIVE Sorted(_)
      \* the node with the children of every node in ascending order of item id
      Sorted(n) ==
        IF n.tag = "Resolved"
        THEN LET ids == SortedKeys({n.inputs[i].item_id : i \in 1..Len(n.inputs)})
             IN [n EXCEPT !.inputs =
                   [j \in 1..Len(ids) |->
                      Sorted(n.inputs[CHOOSE i \in 1..Len(n.inputs) :
                                        n.inputs[i].item_id = ids[j]])]]
        ELSE n
      RECURSIVE Shape(_)
      Shape(n) ==
        IF n.tag = "Resolved"
        THEN [tag |-> n.tag, item_id |-> n.item_id, machine_id |-> n.machine_id,
              is_source |-> n.is_source,
              inputs |-> [i \in 1..Len(n.inputs) |-> Shape(n.inputs[i])]]
        ELSE [tag |-> n.tag, item_id |-> n.item_id]
      RECURSIVE Grows(_, _)
      \* node by node, nothing of less is above its counterpart in more
      Grows(less, more) ==
        /\ BLe(less.amount, more.amount)
        /\ less.tag = "Resolved" =>
             /\ BLe(less.machine_count, more.machine_count)
             /\ \A i \in 1..Len(less.inputs) : Grows(less.inputs[i], more.inputs[i])
  IN Returned =>
       \A amount \in Amounts :
         LET here == Sorted(result[1])
             other == ResolveTree(result[1].item_id, amount, {})
         IN /\ Shape(other) = Shape(here)
            /\ BLe(here.amount, amount) => Grows(here, other)
            /\ BLe(amount, here.amount) => Grows(other, here)

\* a tree of three levels returned for amount 100, in which an input was
\* skipped, and whose root needs more machines at the largest amount
C30_Witness ==
  /\ Returned
  /\ result[1].tag = "Resolved"
  /\ result[1].amount = BInt(100)
  /\ \E c \in 1..Len(result[1].inputs) :
       /\ result[1].inputs[c].tag = "Resolved"
       /\ result[1].inputs[c].inputs # <<>>
  /\ \E i \in 1..Len(ResultNodes) :
       /\ ResultNodes[i].tag = "Resolved"
       /\ ResultNodes[i].inputs = <<>>
       /\ \E key \in DOMAIN recipes :
            recipes[key].id = ResultNodes[i].item_id /\ DOMAIN recipes[key].inputs # {}
  /\ BLt(result[1].machine_count,
         ResolveTree(result[1].item_id, BInt(1073741824), {}).machine_count)
  /\ BLt(ResolveTree(result[1].item_id, BZero, {}).machine_count,
         result[1].machine_count)

====
